---- MODULE Spec2Model ----
(***************************************************************************)
(* Request router and session-authentication gate of the Hospitable        *)
(* Properties Viewer worker (src/worker.js).                               *)
(*                                                                         *)
(* A JavaScript string is a sequence of character codes, so that btoa,     *)
(* String.prototype.split/trim/replace and decodeURIComponent are          *)
(* computed character by character.  A nullable value is a sequence of     *)
(* length at most one: <<>> is null/undefined, <<v>> is the value v.       *)
(* A completion is a record [throws |-> name, value |-> v]: throws = ""   *)
(* is a normal return of v, any other name is the exception thrown.        *)
(*                                                                         *)
(* The module holds several specifications over one set of variables:      *)
(* Spec, the worker answering one request after the other; ConcurrentSpec, *)
(* the worker with several requests in flight; and the specifications of   *)
(* the client script (src/app.js, and its earlier version                  *)
(* src/unnamed/part_001).  A specification leaves the variables of the     *)
(* others at their initial values.                                         *)
(***************************************************************************)
EXTENDS Integers, Sequences, FiniteSets, TLC

VARIABLES
    AUTH_USERNAME,          \* global binding (secret): [declared, value]
    AUTH_PASSWORD,          \* global binding (secret): [declared, value]
    HOSPITABLE_API_TOKEN,   \* global binding (secret): [declared, value]
    now,                    \* host clock, hours since 1970-01-01 00:00 local
    phase,                  \* "idle" | "responded"
    request,                \* <<>> or <<the request being answered>>
    upstream,               \* <<>> or <<reply of the upstream API to fetch()>>
    result,                 \* <<>> or <<completion of handleRequest>>
    jar                     \* the browser's cookie jar: <<>> or <<cookie>>

\* the worker with several requests in flight
VARIABLES
    inflight                \* slot -> the request handled in it and its stage

\* the client script: the variables of src/app.js lines 2-9 ...
VARIABLES
    allProperties,          \* sequence of property records
    filteredProperties,     \* sequence of property records
    selectedProperties,     \* set of property ids
    currentPage,
    isLoading,
    hasMorePages,
    totalProperties,
    loadedProperties,
    searchBox,              \* searchBox.value
\* ... and the state of its environment
    progressText,           \* progressText.textContent
    task,                   \* where the function started at page load stands
    fetchLog,               \* the fetch calls made, in order, and how each settled
    lastPage,               \* last_page of the upstream listing
\* loadAllPropertyDetails of src/unnamed/part_001: its locals
    loopIndex,              \* i, the index at which the current batch starts
    loaded,                 \* the counter of settled detail requests
\* copySelectedProperties of src/app.js
    clipboard,              \* what was last exported, and where to
\* debounce of src/app.js: the closure of one debounced function
    timeout,                \* the handle kept in the closure
    timers,                 \* the timers set and not yet fired or cleared
    clock,                  \* milliseconds since the page was loaded
    calls,                  \* the calls of the debounced function, in order
    runs                    \* the runs of func, in order

workerVars == <<AUTH_USERNAME, AUTH_PASSWORD, HOSPITABLE_API_TOKEN, now, phase,
                request, upstream, result, jar>>

concurrentVars == <<inflight>>

appVars == <<allProperties, filteredProperties, selectedProperties, currentPage,
             isLoading, hasMorePages, totalProperties, loadedProperties, searchBox>>

detailsVars == <<loopIndex, loaded>>

selectVars == <<clipboard>>

debounceVars == <<timeout, timers, clock, calls, runs>>

clientVars == <<appVars, progressText, task, fetchLog, lastPage, detailsVars,
                selectVars, debounceVars>>

vars == <<workerVars, concurrentVars, clientVars>>

----------------------------------------------------------------------------
(* Bounds of the model *)

StartDay == 20757      \* first day of the run: Sat Oct 31 2026
StepHours == 12        \* the clock advances in steps of this many hours
MaxHours == 36         \* the run covers this many hours after StartDay 00:00

----------------------------------------------------------------------------
(* Completions *)

Ok(v) == [throws |-> "", value |-> v]

Throw(name) == [throws |-> name]

Returned(c) == c.throws = ""

----------------------------------------------------------------------------
(* String literals of the source, as character codes *)

STR_session_token == <<115, 101, 115, 115, 105, 111, 110, 95, 116, 111, 107, 101, 110>>
STR_index_html == <<105, 110, 100, 101, 120, 46, 104, 116, 109, 108>>
STR_login_html == <<108, 111, 103, 105, 110, 46, 104, 116, 109, 108>>
STR_app_js == <<97, 112, 112, 46, 106, 115>>
STR_styles_css == <<115, 116, 121, 108, 101, 115, 46, 99, 115, 115>>
EXT_html == <<46, 104, 116, 109, 108>>
EXT_css == <<46, 99, 115, 115>>
EXT_js == <<46, 106, 115>>
PATH_root == <<47>>
PATH_index_html == <<47, 105, 110, 100, 101, 120, 46, 104, 116, 109, 108>>
PATH_app_js == <<47, 97, 112, 112, 46, 106, 115>>
PATH_login == <<47, 108, 111, 103, 105, 110>>
PATH_styles_css == <<47, 115, 116, 121, 108, 101, 115, 46, 99, 115, 115>>
PATH_api_properties == <<47, 97, 112, 105, 47, 112, 114, 111, 112, 101, 114, 116, 105, 101, 115>>
PREFIX_api_property == <<47, 97, 112, 105, 47, 112, 114, 111, 112, 101, 114, 116, 121, 47>>

\* "Sun" .. "Sat", indexed by Date.prototype.getDay() + 1
DayNames ==
    << <<83, 117, 110>>, <<77, 111, 110>>, <<84, 117, 101>>, <<87, 101, 100>>,
       <<84, 104, 117>>, <<70, 114, 105>>, <<83, 97, 116>> >>

\* "Jan" .. "Dec", indexed by the month number 1..12
MonthNames ==
    << <<74, 97, 110>>, <<70, 101, 98>>, <<77, 97, 114>>, <<65, 112, 114>>,
       <<77, 97, 121>>, <<74, 117, 110>>, <<74, 117, 108>>, <<65, 117, 103>>,
       <<83, 101, 112>>, <<79, 99, 116>>, <<78, 111, 118>>, <<68, 101, 99>> >>

----------------------------------------------------------------------------
(* Built-in string operations used by the source *)

\* the decimal digits of n, left-padded with "0" to at least width characters
RECURSIVE Digits(_, _)
Digits(n, width) ==
    IF n < 10 /\ width <= 1
    THEN <<48 + n>>
    ELSE Digits(n \div 10, width - 1) \o <<48 + (n % 10)>>

\* String.prototype.startsWith
StartsWith(s, prefix) ==
    /\ Len(s) >= Len(prefix)
    /\ SubSeq(s, 1, Len(prefix)) = prefix

\* String.prototype.endsWith
EndsWith(s, suffix) ==
    /\ Len(s) >= Len(suffix)
    /\ SubSeq(s, Len(s) - Len(suffix) + 1, Len(s)) = suffix

\* String.prototype.split(sep) for a one-character separator: the sequence
\* of the pieces between the separators (one piece for a string without any)
RECURSIVE Split(_, _)
Split(s, sep) ==
    IF \A i \in 1..Len(s) : s[i] # sep
    THEN <<s>>
    ELSE LET i == CHOOSE k \in 1..Len(s) :
                      s[k] = sep /\ \A j \in 1..(k - 1) : s[j] # sep
         IN  <<SubSeq(s, 1, i - 1)>> \o Split(SubSeq(s, i + 1, Len(s)), sep)

\* white space stripped by String.prototype.trim (tab, LF, VT, FF, CR, space)
IsWhiteSpace(c) == c \in {9, 10, 11, 12, 13, 32}

\* String.prototype.trim
RECURSIVE Trim(_)
Trim(s) ==
    IF s = <<>> THEN s
    ELSE IF IsWhiteSpace(s[1]) THEN Trim(Tail(s))
    ELSE IF IsWhiteSpace(s[Len(s)]) THEN Trim(SubSeq(s, 1, Len(s) - 1))
    ELSE s

\* value of a hexadecimal digit, -1 for any other character
HexValue(c) ==
    IF c \in 48..57 THEN c - 48
    ELSE IF c \in 65..70 THEN c - 55
    ELSE IF c \in 97..102 THEN c - 87
    ELSE -1

\* decodeURIComponent: "%XX" with XX < 80 (hex) is the character XX; a "%"
\* not followed by two hexadecimal digits throws URIError, and so does an
\* escaped byte >= 80 (hex) that does not start a well-formed UTF-8 sequence
\* (the escapes of this model are single bytes, so every such byte is lone).
RECURSIVE decodeURIComponent(_)
decodeURIComponent(s) ==
    IF s = <<>> THEN Ok(<<>>)
    ELSE IF s[1] # 37
    THEN LET rest == decodeURIComponent(Tail(s))
         IN  IF Returned(rest) THEN Ok(<<s[1]>> \o rest.value) ELSE rest
    ELSE IF Len(s) < 3 \/ HexValue(s[2]) < 0 \/ HexValue(s[3]) < 0
    THEN Throw("URIError")
    ELSE LET byte == 16 * HexValue(s[2]) + HexValue(s[3])
             rest == decodeURIComponent(SubSeq(s, 4, Len(s)))
         IN  IF byte >= 128 THEN Throw("URIError")
             ELSE IF Returned(rest) THEN Ok(<<byte>> \o rest.value)
             ELSE rest

\* the base64 alphabet: A-Z, a-z, 0-9, "+", "/"
B64Char(i) ==
    IF i < 26 THEN 65 + i
    ELSE IF i < 52 THEN 97 + (i - 26)
    ELSE IF i < 62 THEN 48 + (i - 52)
    ELSE IF i = 62 THEN 43
    ELSE 47

RECURSIVE Base64(_)
Base64(s) ==
    IF s = <<>> THEN <<>>
    ELSE IF Len(s) = 1
    THEN <<B64Char(s[1] \div 4), B64Char((s[1] % 4) * 16), 61, 61>>
    ELSE IF Len(s) = 2
    THEN <<B64Char(s[1] \div 4),
           B64Char((s[1] % 4) * 16 + (s[2] \div 16)),
           B64Char((s[2] % 16) * 4), 61>>
    ELSE <<B64Char(s[1] \div 4),
           B64Char((s[1] % 4) * 16 + (s[2] \div 16)),
           B64Char((s[2] % 16) * 4 + (s[3] \div 64)),
           B64Char(s[3] % 64)>> \o Base64(SubSeq(s, 4, Len(s)))

\* btoa: base64 of a string of characters in the range 0..255; a character
\* outside that range throws InvalidCharacterError
btoa(s) ==
    IF \E i \in 1..Len(s) : s[i] > 255
    THEN Throw("InvalidCharacterError")
    ELSE Ok(Base64(s))

\* StripNonAlphanumeric that removes nothing
StripNothing(s) == s

\* s.replace(/[^a-zA-Z0-9]/g, "")
StripNonAlphanumeric(s) ==
    SelectSeq(s, LAMBDA c : c \in 48..57 \/ c \in 65..90 \/ c \in 97..122)

----------------------------------------------------------------------------
(* The calendar: new Date().toDateString() *)

\* the calendar day (days since 1970-01-01) the clock shows
DayOf(t) == t \div 24

\* the civil date [year, month, day] of a day number (proleptic Gregorian)
CivilFromDays(days) ==
    LET z   == days + 719468
        era == z \div 146097
        doe == z - era * 146097
        yoe == (doe - doe \div 1460 + doe \div 36524 - doe \div 146096) \div 365
        doy == doe - (365 * yoe + yoe \div 4 - yoe \div 100)
        mp  == (5 * doy + 2) \div 153
        d   == doy - (153 * mp + 2) \div 5 + 1
        m   == IF mp < 10 THEN mp + 3 ELSE mp - 9
    IN  [year |-> yoe + era * 400 + (IF m <= 2 THEN 1 ELSE 0), month |-> m, day |-> d]

\* Date.prototype.toDateString of a day number: "Sun Nov 01 2026"
toDateString(days) ==
    LET date == CivilFromDays(days)
    IN  DayNames[((days + 4) % 7) + 1] \o <<32>> \o MonthNames[date.month] \o <<32>>
        \o Digits(date.day, 2) \o <<32>> \o Digits(date.year, 4)

----------------------------------------------------------------------------
(* Global bindings.  A secret that was never put is an undeclared global:  *)
(* reading it throws ReferenceError.  A secret put as "" is declared.      *)

Declared(v) == [declared |-> TRUE, value |-> v]

Undeclared == [declared |-> FALSE]

\* evaluation of a global identifier
Read(binding) ==
    IF binding.declared THEN Ok(binding.value) ELSE Throw("ReferenceError")

----------------------------------------------------------------------------
(* Responses *)

\* a header object: a function from header names to values
NoHeaders == [h \in {} |-> ""]

\* new Response(body, {status, headers}); a string body without a
\* Content-Type header gets the default type of a string body
NewResponse(body, status, headers) ==
    [status  |-> status,
     headers |-> IF "Content-Type" \in DOMAIN headers
                 THEN headers
                 ELSE headers @@ ("Content-Type" :> "text/plain;charset=UTF-8"),
     body    |-> body]

Text(t) == [text |-> t]

\* the statuses of a response that cannot have a body: the Response
\* constructor throws TypeError when given one of them with a body
NullBodyStatus == {101, 103, 204, 205, 304}

\* new Response("", {status: 302, headers: {Location: location}})
Redirect(location) == NewResponse(Text(""), 302, "Location" :> location)

\* JSON.stringify of a value: the canonical JSON text of that value
JSON_stringify(v) == [json |-> v, canonical |-> TRUE]

\* Response.prototype.json / JSON.parse of a body text: a JSON text parses to
\* its value whatever its layout, any other text throws SyntaxError
JSON_parse(body) ==
    IF "json" \in DOMAIN body THEN Ok(body.json) ELSE Throw("SyntaxError")

----------------------------------------------------------------------------
(* src/worker.js *)

\* parseCookies, one forEach step: the cookies after the segment `cookie`
parseCookie(cookies, cookie) ==
    LET parts == Split(Trim(cookie), 61)
        name  == parts[1]
        value == IF Len(parts) >= 2 THEN parts[2] ELSE <<>>
    IN  IF name # <<>> /\ value # <<>>
        THEN LET decoded == decodeURIComponent(value)
             IN  IF Returned(decoded)
                 THEN Ok((name :> decoded.value) @@ cookies)
                 ELSE decoded
        ELSE Ok(cookies)

RECURSIVE forEachCookie(_, _)
forEachCookie(segments, cookies) ==
    IF segments = <<>> THEN Ok(cookies)
    ELSE LET next == parseCookie(cookies, Head(segments))
         IN  IF Returned(next)
             THEN forEachCookie(Tail(segments), next.value)
             ELSE next

\* parseCookies(cookieHeader): a completion whose value maps names to values
parseCookies(cookieHeader) ==
    IF cookieHeader # <<>>
    THEN forEachCookie(Split(cookieHeader, 59), [n \in {} |-> <<>>])
    ELSE Ok([n \in {} |-> <<>>])

\* TokenOf with the date left out of the encoded string
TokenOfUndated(username, day) ==
    LET encoded == btoa(username \o <<58>>)
    IN  IF Returned(encoded)
        THEN Ok(StripNonAlphanumeric(encoded.value))
        ELSE encoded

\* btoa(`${username}:${today}`).replace(/[^a-zA-Z0-9]/g, "")
TokenOf(username, day) ==
    LET encoded == btoa(username \o <<58>> \o toDateString(day))
    IN  IF Returned(encoded)
        THEN Ok(StripNonAlphanumeric(encoded.value))
        ELSE encoded

\* getValidSessionToken with the clock's hour, not its day, in the token
getValidSessionTokenHourly ==
    LET username == Read(AUTH_USERNAME)
    IN  IF Returned(username) THEN TokenOf(username.value, now) ELSE username

\* getValidSessionToken()
getValidSessionToken ==
    LET today    == DayOf(now)
        username == Read(AUTH_USERNAME)
    IN  IF Returned(username) THEN TokenOf(username.value, today) ELSE username

\* checkAuthentication(request)
checkAuthentication(req) ==
    LET header  == IF req.cookie = <<>> THEN <<>> ELSE req.cookie[1]
        cookies == parseCookies(header)
    IN  IF ~Returned(cookies) THEN cookies
        ELSE IF STR_session_token \notin DOMAIN cookies.value
                \/ cookies.value[STR_session_token] = <<>>
        THEN Ok([authenticated |-> FALSE, response |-> Redirect("/login")])
        ELSE LET valid == getValidSessionToken
             IN  IF ~Returned(valid) THEN valid
                 ELSE IF cookies.value[STR_session_token] # valid.value
                 THEN Ok([authenticated |-> FALSE, response |-> Redirect("/login")])
                 ELSE Ok([authenticated |-> TRUE])

\* the Set-Cookie template literal of handleLogin, as its three parts
SessionCookie(sessionToken) ==
    <<"session_token=", sessionToken,
      "; Path=/; HttpOnly; Secure; SameSite=Strict; Max-Age=86400">>

\* tryLogin with the password comparison left out
tryLoginAnyPassword(req) ==
    IF req.form = <<>> THEN Throw("TypeError")
    ELSE LET username == req.form[1].username
         IN  IF ~AUTH_USERNAME.declared THEN Throw("ReferenceError")
             ELSE IF AUTH_USERNAME.value = <<>> THEN Ok(Redirect("/login?error=config"))
             ELSE IF ~AUTH_PASSWORD.declared THEN Throw("ReferenceError")
             ELSE IF AUTH_PASSWORD.value = <<>> THEN Ok(Redirect("/login?error=config"))
             ELSE IF username = <<AUTH_USERNAME.value>>
             THEN LET sessionToken == getValidSessionToken
                  IN  IF Returned(sessionToken)
                      THEN Ok(NewResponse(Text(""), 302,
                                 ("Location" :> "/")
                                 @@ ("Set-Cookie" :> SessionCookie(sessionToken.value))))
                      ELSE sessionToken
             ELSE Ok(Redirect("/login?error=invalid"))

\* handleLogin: the body of the try block
tryLogin(req) ==
    IF req.form = <<>> THEN Throw("TypeError")
    ELSE LET username == req.form[1].username
             password == req.form[1].password
         IN  IF ~AUTH_USERNAME.declared THEN Throw("ReferenceError")
             ELSE IF AUTH_USERNAME.value = <<>> THEN Ok(Redirect("/login?error=config"))
             ELSE IF ~AUTH_PASSWORD.declared THEN Throw("ReferenceError")
             ELSE IF AUTH_PASSWORD.value = <<>> THEN Ok(Redirect("/login?error=config"))
             ELSE IF username = <<AUTH_USERNAME.value>> /\ password = <<AUTH_PASSWORD.value>>
             THEN LET sessionToken == getValidSessionToken
                  IN  IF Returned(sessionToken)
                      THEN Ok(NewResponse(Text(""), 302,
                                 ("Location" :> "/")
                                 @@ ("Set-Cookie" :> SessionCookie(sessionToken.value))))
                      ELSE sessionToken
             ELSE Ok(Redirect("/login?error=invalid"))

\* handleLogin(request): every exception of the try block is caught
handleLogin(req) ==
    LET attempt == tryLogin(req)
    IN  IF Returned(attempt) THEN attempt ELSE Ok(Redirect("/login?error=error"))

\* getContentType(filename)
getContentType(filename) ==
    IF EndsWith(filename, EXT_html) THEN "text/html"
    ELSE IF EndsWith(filename, EXT_css) THEN "text/css"
    ELSE IF EndsWith(filename, EXT_js) THEN "application/javascript"
    ELSE "text/plain"

\* getFileContent(filename): the embedded content is named, not spelled out
getFileContent(filename) ==
    IF filename = STR_index_html THEN Text("index.html content")
    ELSE IF filename = STR_login_html THEN Text("login.html content")
    ELSE IF filename = STR_app_js THEN Text("app.js content")
    ELSE IF filename = STR_styles_css THEN Text("styles.css content")
    ELSE Text("File not found")

\* getFileResponse(filename)
getFileResponse(filename) ==
    NewResponse(getFileContent(filename), 200,
                "Content-Type" :> getContentType(filename))

\* handlePublicRoutes behind the gate: the files only for an authenticated request
handlePublicRoutesGated(req) ==
    IF checkAuthentication(req) # Ok([authenticated |-> TRUE]) THEN Redirect("/login")
    ELSE IF req.pathname = PATH_login THEN getFileResponse(STR_login_html)
    ELSE IF req.pathname = PATH_styles_css THEN getFileResponse(STR_styles_css)
    ELSE NewResponse(Text("Not Found"), 404, NoHeaders)

\* handlePublicRoutes(request)
handlePublicRoutes(req) ==
    IF req.pathname = PATH_login THEN getFileResponse(STR_login_html)
    ELSE IF req.pathname = PATH_styles_css THEN getFileResponse(STR_styles_css)
    ELSE NewResponse(Text("Not Found"), 404, NoHeaders)

\* an exception with the message the catch block reads from error.message
Error(name, message) == [throws |-> name, message |-> message]

\* response.ok
IsOk(status) == status \in 200..299

\* JsonResponse with the value wrapped in an envelope
JsonResponseEnveloped(value, status) ==
    NewResponse(JSON_stringify([data |-> value, status |-> status]), status,
                "Content-Type" :> "application/json")

\* new Response(JSON.stringify(value), {status, headers: {"Content-Type": "application/json"}})
JsonResponse(value, status) ==
    NewResponse(JSON_stringify(value), status, "Content-Type" :> "application/json")

\* the options of both outbound fetch calls
FetchInit(token) ==
    [method  |-> "GET",
     headers |-> ("Accept" :> "application/json")
                 @@ ("Authorization" :> <<"Bearer ", token>>)]

\* url.searchParams.get(name) || fallback
ParamOr(param, fallback) ==
    IF param = <<>> \/ param[1] = "" THEN fallback ELSE param[1]

\* Tried for a try block that repeats a call that failed
TriedAgain(outcome, fetched) ==
    [outcome |-> outcome,
     fetched |-> IF Returned(outcome) THEN fetched ELSE fetched \o fetched]

\* the state of a try block when it ends: how it ended and the calls it made
Tried(outcome, fetched) == [outcome |-> outcome, fetched |-> fetched]

\* the rest of both try blocks once fetch() has settled with `reply`
afterFetch(reply, errorType, errorMessage) ==
    IF reply.rejects THEN Error("TypeError", reply.message)
    ELSE IF ~IsOk(reply.status) /\ reply.status \in NullBodyStatus
    THEN Error("TypeError", "Response with null body status cannot have body")
    ELSE IF ~IsOk(reply.status)
    THEN Ok(JsonResponse([error |-> errorType, message |-> errorMessage,
                          status |-> reply.status], reply.status))
    ELSE LET data == JSON_parse(reply.body)
         IN  IF Returned(data)
             THEN Ok(JsonResponse(data.value, 200))
             ELSE Error("SyntaxError", "Unexpected token in JSON")

\* handlePropertiesAPI: the body of the try block, given the reply to its fetch
tryProperties(req, reply) ==
    LET page    == ParamOr(req.query.page, "1")
        perPage == ParamOr(req.query.per_page, "50")
    IN  IF ~HOSPITABLE_API_TOKEN.declared
        THEN Tried(Error("ReferenceError", "HOSPITABLE_API_TOKEN is not defined"), <<>>)
        ELSE IF HOSPITABLE_API_TOKEN.value = <<>>
        THEN Tried(Ok(JsonResponse(
                 [error   |-> "API_TOKEN_MISSING",
                  message |-> "Hospitable API token not configured. Please set the HOSPITABLE_API_TOKEN secret in Cloudflare Workers."],
                 500)), <<>>)
        ELSE LET apiUrl == <<"https://public.api.hospitable.com/v2/properties?page=", page,
                             "&per_page=", perPage, "&include=listings,details">>
                 errorType ==
                     IF reply.status = 401 THEN "AUTHENTICATION_ERROR"
                     ELSE IF reply.status = 403 THEN "AUTHORIZATION_ERROR"
                     ELSE IF reply.status = 429 THEN "RATE_LIMIT_ERROR"
                     ELSE "API_ERROR"
                 errorMessage ==
                     IF reply.status = 401 THEN "Authentication failed. Please check your API token."
                     ELSE IF reply.status = 403 THEN "Access forbidden. Please check your API permissions."
                     ELSE IF reply.status = 429 THEN "Rate limit exceeded. Please try again later."
                     ELSE "API request failed"
             IN  Tried(afterFetch(reply, errorType, errorMessage),
                       << [url |-> apiUrl] @@ FetchInit(HOSPITABLE_API_TOKEN.value) >>)

\* handlePropertiesAPI(request): [response, fetched]
handlePropertiesAPI(req, reply) ==
    LET attempt == tryProperties(req, reply)
    IN  [response |->
             IF Returned(attempt.outcome) THEN attempt.outcome.value
             ELSE JsonResponse(
                      [error   |-> "NETWORK_ERROR",
                       message |-> "Failed to connect to Hospitable API. Please check your internet connection.",
                       details |-> attempt.outcome.message],
                      500),
         fetched |-> attempt.fetched]

\* url.pathname.split("/").pop()
LastSegment(pathname) ==
    LET pieces == Split(pathname, 47) IN pieces[Len(pieces)]

\* handlePropertyDetailsAPI: the body of the try block
tryPropertyDetails(req, reply) ==
    LET propertyId == LastSegment(req.pathname)
    IN  IF ~HOSPITABLE_API_TOKEN.declared
        THEN Tried(Error("ReferenceError", "HOSPITABLE_API_TOKEN is not defined"), <<>>)
        ELSE IF HOSPITABLE_API_TOKEN.value = <<>>
        THEN Tried(Ok(JsonResponse(
                 [error   |-> "API_TOKEN_MISSING",
                  message |-> "Hospitable API token not configured."],
                 500)), <<>>)
        ELSE LET apiUrl == <<"https://public.api.hospitable.com/v2/properties/",
                             propertyId, "?include=listings,details">>
                 errorType ==
                     IF reply.status = 401 THEN "AUTHENTICATION_ERROR"
                     ELSE IF reply.status = 404 THEN "NOT_FOUND_ERROR"
                     ELSE "API_ERROR"
                 errorMessage ==
                     IF reply.status = 401 THEN "Authentication failed. Please check your API token."
                     ELSE IF reply.status = 404 THEN "Property not found."
                     ELSE "Failed to fetch property details"
             IN  Tried(afterFetch(reply, errorType, errorMessage),
                       << [url |-> apiUrl] @@ FetchInit(HOSPITABLE_API_TOKEN.value) >>)

\* handlePropertyDetailsAPI(request): [response, fetched]
handlePropertyDetailsAPI(req, reply) ==
    LET attempt == tryPropertyDetails(req, reply)
    IN  [response |->
             IF Returned(attempt.outcome) THEN attempt.outcome.value
             ELSE JsonResponse(
                      [error   |-> "NETWORK_ERROR",
                       message |-> "Failed to fetch property details.",
                       details |-> attempt.outcome.message],
                      500),
         fetched |-> attempt.fetched]

\* the outcome of a handler that makes no outbound call
Local(completion) == [completion |-> completion, fetched |-> <<>>]

\* handleRequest(request), given the reply the upstream API makes if asked:
\* [completion |-> the response or the exception, fetched |-> outbound calls]
handleRequest(req, reply) ==
    IF req.pathname = PATH_login /\ req.method = "POST"
    THEN Local(handleLogin(req))
    ELSE IF req.pathname = PATH_login \/ req.pathname = PATH_styles_css
    THEN Local(Ok(handlePublicRoutes(req)))
    ELSE LET authResult == checkAuthentication(req)
         IN  IF ~Returned(authResult) THEN Local(authResult)
             ELSE IF ~authResult.value.authenticated
             THEN Local(Ok(authResult.value.response))
             ELSE IF req.pathname = PATH_root \/ req.pathname = PATH_index_html
             THEN Local(Ok(getFileResponse(STR_index_html)))
             ELSE IF req.pathname = PATH_app_js
             THEN Local(Ok(getFileResponse(STR_app_js)))
             ELSE IF req.pathname = PATH_api_properties
             THEN LET api == handlePropertiesAPI(req, reply)
                  IN  [completion |-> Ok(api.response), fetched |-> api.fetched]
             ELSE IF StartsWith(req.pathname, PREFIX_api_property)
             THEN LET api == handlePropertyDetailsAPI(req, reply)
                  IN  [completion |-> Ok(api.response), fetched |-> api.fetched]
             ELSE Local(Ok(NewResponse(Text("Not Found"), 404, NoHeaders)))

----------------------------------------------------------------------------
(* The inputs of the model *)

NAME_admin == <<97, 100, 109, 105, 110>>          \* "admin"
NAME_Admin == <<65, 100, 109, 105, 110>>          \* "Admin"
NAME_zoe == <<122, 111, 235, 8364>>               \* "zo" e-diaeresis, euro sign
PASS_pw == <<112, 119>>                           \* "pw"
PASS_pw2 == <<112, 119, 50>>                      \* "pw2"
TOKEN_tok == <<116, 111, 107>>                    \* "tok"

\* the deployments: which secrets were put, and their values ("" is a secret
\* put as the empty string)
Configs ==
    { [username |-> Declared(NAME_admin), password |-> Declared(PASS_pw),
       token |-> Declared(TOKEN_tok)],
      [username |-> Declared(NAME_admin), password |-> Declared(PASS_pw2),
       token |-> Declared(TOKEN_tok)],
      [username |-> Declared(NAME_admin), password |-> Declared(PASS_pw),
       token |-> Declared(<<>>)],
      [username |-> Declared(NAME_admin), password |-> Undeclared,
       token |-> Undeclared],
      [username |-> Undeclared, password |-> Declared(PASS_pw),
       token |-> Declared(TOKEN_tok)],
      [username |-> Declared(<<>>), password |-> Declared(<<>>),
       token |-> Declared(<<>>)],
      [username |-> Declared(NAME_zoe), password |-> Declared(PASS_pw),
       token |-> Declared(TOKEN_tok)] }

\* the calendar days the run covers
Days == StartDay .. (StartDay + MaxHours \div 24)

\* the session tokens a client may present: those of "admin" on each day
PresentedTokens == { TokenOf(NAME_admin, d).value : d \in Days }

\* "session_token=" followed by the value
SessionSegment(v) == STR_session_token \o <<61>> \o v

\* %XX escape of the first character of a token (all are letters or digits)
Escaped(v) ==
    LET hex(n) == IF n < 10 THEN 48 + n ELSE 55 + n
    IN  <<37, hex(v[1] \div 16), hex(v[1] % 16)>> \o Tail(v)

\* the Cookie headers of the requests: <<>> is a request without the header
CookieHeaders ==
    { <<>>, << <<>> >>,
      << <<97, 61, 49>> >>,                                    \* "a=1"
      << <<120, 61, 37>> >> }                                  \* "x=%"
    \cup { <<SessionSegment(t)>> : t \in PresentedTokens }
    \cup { <<SessionSegment(t) \o <<61, 120>>>> : t \in PresentedTokens }        \* "...=x"
    \cup { <<SessionSegment(Escaped(t))>> : t \in PresentedTokens }
    \cup { << <<97, 61, 49, 59, 32>> \o SessionSegment(t) >> : t \in PresentedTokens }  \* "a=1; ..."
    \cup { << SessionSegment(t) \o <<59, 32, 120, 61, 37>> >> : t \in PresentedTokens } \* "...; x=%"

Methods == {"GET", "POST", "PUT"}

Paths ==
    { PATH_root, PATH_index_html, PATH_app_js, PATH_login, PATH_styles_css,
      PATH_api_properties,
      PREFIX_api_property \o <<52, 50>>,                       \* "/api/property/42"
      <<47, 117, 110, 107, 110, 111, 119, 110, 47, 112, 97, 116, 104>> }  \* "/unknown/path"

NoQuery == [page |-> <<>>, per_page |-> <<>>]

Queries == { NoQuery, [page |-> <<"2">>, per_page |-> <<>>] }

\* the form bodies of a login submission: <<>> is a body formData() rejects
Forms ==
    { <<>> } \cup
    { <<[username |-> u, password |-> p]>> :
          u \in { <<>>, <<NAME_admin>>, <<NAME_Admin>>, <<NAME_zoe>> },
          p \in { <<>>, <<PASS_pw>>, <<PASS_pw2>> } }

\* a request: the parts of it the handlers read
Request(method, pathname, query, cookie, form) ==
    [method |-> method, pathname |-> pathname, query |-> query,
     cookie |-> cookie, form |-> form]

\* the Cookie header a browser sends for the cookie it stored
JarHeader == <<SessionSegment(jar[1].value)>>

\* the Cookie headers a request may have now: any of CookieHeaders, or the
\* header of the cookie the browser holds
CookiesNow == CookieHeaders \cup (IF jar = <<>> THEN {} ELSE {JarHeader})

\* login submissions carry a form; the query string is varied on the list
\* endpoint, the only handler that reads it
Requests ==
    { Request("POST", PATH_login, NoQuery, c, f) :
          c \in { <<>> } \cup { <<SessionSegment(t)>> : t \in PresentedTokens },
          f \in Forms }
    \cup { Request(m, p, NoQuery, c, <<>>) :
               m \in Methods, p \in Paths, c \in CookiesNow }
    \cup { Request("GET", PATH_api_properties, q, c, <<>>) :
               q \in Queries, c \in CookiesNow }

\* the replies of the upstream API: fetch() rejects, or resolves with a status
\* and a body (a JSON text, canonical or laid out otherwise, or no JSON at all)
Replies ==
    { [rejects |-> TRUE, message |-> "connection refused"] }
    \cup { [rejects |-> FALSE, status |-> 200, body |-> b] :
               b \in { [json |-> [data |-> <<>>], canonical |-> TRUE],
                       [json |-> [data |-> <<>>], canonical |-> FALSE],
                       [html |-> "login page"] } }
    \cup { [rejects |-> FALSE, status |-> st, body |-> [json |-> [message |-> "error"], canonical |-> TRUE]] :
               st \in {304, 401, 403, 404, 429, 500} }

\* the reply of a request during which fetch() is never called
Unasked == [rejects |-> TRUE, message |-> "fetch was not called"]

----------------------------------------------------------------------------
(* The state machine *)

MaxAge == 86400          \* Max-Age of the session cookie, in seconds

\* no request is in flight in the slots of the concurrent worker
NothingInFlight == inflight = <<>>

\* the client script as its declarations leave it, before the page has loaded
Declarations ==
    /\ allProperties = <<>>
    /\ filteredProperties = <<>>
    /\ selectedProperties = {}
    /\ currentPage = 1
    /\ isLoading = FALSE
    /\ hasMorePages = TRUE
    /\ totalProperties = 0
    /\ loadedProperties = 0

\* nothing has been exported
NothingCopied == clipboard = <<>>

\* the debounced function has not been called: let timeout, no timer set
NothingTyped ==
    /\ timeout = <<>>
    /\ timers = {}
    /\ clock = 0
    /\ calls = <<>>
    /\ runs = <<>>

\* the page before the script has run, and an upstream listing of one page
PageNotLoaded ==
    /\ Declarations
    /\ searchBox = <<>>
    /\ progressText = <<"Loading properties...">>
    /\ task = "declared"
    /\ fetchLog = <<>>
    /\ lastPage = 1
    /\ loopIndex = 0
    /\ loaded = 0
    /\ NothingCopied
    /\ NothingTyped

Init ==
    /\ \E c \in Configs :
          /\ AUTH_USERNAME = c.username
          /\ AUTH_PASSWORD = c.password
          /\ HOSPITABLE_API_TOKEN = c.token
    /\ now = StartDay * 24
    /\ phase = "idle"
    /\ request = <<>>
    /\ upstream = <<>>
    /\ result = <<>>
    /\ jar = <<>>
    /\ NothingInFlight
    /\ PageNotLoaded

\* addEventListener("fetch", ...): a request arrives and handleRequest runs
\* on it; the upstream API replies if and only if the handler calls fetch()
FetchEvent ==
    /\ phase = "idle"
    /\ \E req \in Requests :
          \E reply \in (IF handleRequest(req, Unasked).fetched = <<>>
                        THEN {Unasked} ELSE Replies) :
             /\ request' = <<req>>
             /\ upstream' = IF reply = Unasked THEN <<>> ELSE <<reply>>
             /\ result' = <<handleRequest(req, reply)>>
    /\ phase' = "responded"
    /\ UNCHANGED <<AUTH_USERNAME, AUTH_PASSWORD, HOSPITABLE_API_TOKEN, now, jar>>
    /\ UNCHANGED <<concurrentVars, clientVars>>

\* the cookie a response sets, as the browser stores it
StoredCookie(response) ==
    [value    |-> response.headers["Set-Cookie"][2],
     issuedAt |-> now,
     username |-> AUTH_USERNAME,
     password |-> AUTH_PASSWORD]

\* event.respondWith: the response reaches the browser, which stores the
\* cookie of a Set-Cookie header; an exception is answered by the runtime
RespondWith ==
    /\ phase = "responded"
    /\ jar' = IF /\ Returned(result[1].completion)
                 /\ "Set-Cookie" \in DOMAIN result[1].completion.value.headers
              THEN <<StoredCookie(result[1].completion.value)>>
              ELSE jar
    /\ phase' = "idle"
    /\ request' = <<>>
    /\ upstream' = <<>>
    /\ result' = <<>>
    /\ UNCHANGED <<AUTH_USERNAME, AUTH_PASSWORD, HOSPITABLE_API_TOKEN, now>>
    /\ UNCHANGED <<concurrentVars, clientVars>>

\* new Date(): the host clock advances; the browser drops a cookie whose
\* Max-Age has elapsed
Tick ==
    /\ phase = "idle"
    /\ now + StepHours <= StartDay * 24 + MaxHours
    /\ now' = now + StepHours
    /\ jar' = IF jar # <<>> /\ (now' - jar[1].issuedAt) * 3600 >= MaxAge
              THEN <<>> ELSE jar
    /\ UNCHANGED <<AUTH_USERNAME, AUTH_PASSWORD, HOSPITABLE_API_TOKEN, phase,
                   request, upstream, result>>
    /\ UNCHANGED <<concurrentVars, clientVars>>

\* wrangler secret put / wrangler deploy: the worker restarts with other secrets
Deploy ==
    /\ phase = "idle"
    /\ \E c \in Configs :
          /\ <<c.username, c.password, c.token>>
                 # <<AUTH_USERNAME, AUTH_PASSWORD, HOSPITABLE_API_TOKEN>>
          /\ AUTH_USERNAME' = c.username
          /\ AUTH_PASSWORD' = c.password
          /\ HOSPITABLE_API_TOKEN' = c.token
    /\ UNCHANGED <<now, phase, request, upstream, result, jar>>
    /\ UNCHANGED <<concurrentVars, clientVars>>

Next == FetchEvent \/ RespondWith \/ Tick \/ Deploy

Spec == Init /\ [][Next]_vars

----------------------------------------------------------------------------
(* Vocabulary of the properties *)

Responded == phase = "responded"

\* handleRequest returned a response (it did not throw)
Answered == Responded /\ Returned(result[1].completion)

TheRequest == request[1]

TheResponse == result[1].completion.value

\* the outbound calls made while the request was handled
Fetched == result[1].fetched

IsRedirectTo(response, location) ==
    /\ response.status = 302
    /\ "Location" \in DOMAIN response.headers
    /\ response.headers["Location"] = location

SetsCookie(response) == "Set-Cookie" \in DOMAIN response.headers

IsPublicPath(pathname) == pathname = PATH_login \/ pathname = PATH_styles_css

\* the request is a login submission
IsLoginSubmission(req) == req.method = "POST" /\ req.pathname = PATH_login

\* the response is the home page: 200, text/html, the content of index.html
IsHomePage(response) ==
    /\ response.status = 200
    /\ response.body = Text("index.html content")
    /\ response.headers["Content-Type"] = "text/html"

\* the response holds protected output: the home page, the client script or
\* the result of one of the two proxy handlers (always a JSON body)
IsProtected(response) ==
    \/ response.body = Text("index.html content")
    \/ response.body = Text("app.js content")
    \/ "json" \in DOMAIN response.body

\* a secret is configured: the binding exists and is not the empty string
Configured(binding) == binding.declared /\ binding.value # <<>>

\* the session token of the current calendar day, when one can be derived
TodaysToken == TokenOf(AUTH_USERNAME.value, now \div 24)

HasTodaysToken == AUTH_USERNAME.declared /\ Returned(TodaysToken)

\* the cookie pairs of a Cookie header as the specified parser reads them:
\* split on ";", trim, split at the first "=", URL-decode the value
PairOf(segment) ==
    LET s == Trim(segment)
        i == CHOOSE k \in 1..Len(s) : s[k] = 61 /\ \A j \in 1..(k - 1) : s[j] # 61
    IN  [name |-> SubSeq(s, 1, i - 1), value |-> decodeURIComponent(SubSeq(s, i + 1, Len(s)))]

HasPair(segment) == \E k \in 1..Len(Trim(segment)) : Trim(segment)[k] = 61

\* the Cookie header carries a cookie named `name` whose value is `v`
Carries(cookie, name, v) ==
    /\ cookie # <<>>
    /\ \E i \in 1..Len(Split(cookie[1], 59)) :
          LET segment == Split(cookie[1], 59)[i]
          IN  /\ HasPair(segment)
              /\ PairOf(segment).name = name
              /\ PairOf(segment).value = Ok(v)

\* the request carries the session token of the current calendar day
CarriesValidToken(req) ==
    HasTodaysToken /\ Carries(req.cookie, STR_session_token, TodaysToken.value)

\* the secrets are those under which the stored cookie was issued
SameDeployment ==
    jar[1].username = AUTH_USERNAME /\ jar[1].password = AUTH_PASSWORD

\* the gate let the request through: a response other than its redirect
GateAccepts == Answered /\ ~IsRedirectTo(TheResponse, "/login")

\* the request presents the stored cookie, and nothing else, on a gated path
PresentsStoredCookie ==
    /\ Responded
    /\ jar # <<>>
    /\ TheRequest.cookie = JarHeader
    /\ ~IsPublicPath(TheRequest.pathname)

\* the submitted credentials are the configured ones
CredentialsMatch(req) ==
    /\ req.form # <<>>
    /\ Configured(AUTH_USERNAME)
    /\ Configured(AUTH_PASSWORD)
    /\ req.form[1].username = <<AUTH_USERNAME.value>>
    /\ req.form[1].password = <<AUTH_PASSWORD.value>>

\* the deployment is complete: the three secrets are configured and the
\* session token of the current day can be derived
SecretsConfigured ==
    /\ Configured(AUTH_USERNAME)
    /\ Configured(AUTH_PASSWORD)
    /\ Configured(HOSPITABLE_API_TOKEN)
    /\ HasTodaysToken

----------------------------------------------------------------------------
(* The claims *)

\* C1: on a path other than /login and /styles.css, protected output is
\* returned and an outbound call is made only if the Cookie header carries a
\* session_token equal to the token of the current day; otherwise neither.
\* (Stated for the complete deployments, where the token exists.)
C1_ProtectedOnlyWithValidToken ==
    ( /\ Responded
      /\ SecretsConfigured
      /\ ~IsPublicPath(TheRequest.pathname)
      /\ ~CarriesValidToken(TheRequest) )
        => /\ Fetched = <<>>
           /\ Answered => ~IsProtected(TheResponse)

\* C2: a request to a gated path without a session_token cookie, or with one
\* that differs from today's token, is answered 302 with Location "/login"
\* and without a Set-Cookie header.
\* (Stated for the complete deployments, where the token exists.)
C2_InvalidCookieRedirects ==
    ( /\ Responded
      /\ SecretsConfigured
      /\ ~IsPublicPath(TheRequest.pathname)
      /\ ~CarriesValidToken(TheRequest) )
        => /\ Answered
           /\ IsRedirectTo(TheResponse, "/login")
           /\ ~SetsCookie(TheResponse)

\* C3: two requests to the same gated path that differ only in a Cookie
\* header that does not carry the valid token have the same outcome.
\* (Stated for the complete deployments, where the token exists.)
C3_InvalidCookiesIndistinguishable ==
    ( /\ Responded
      /\ SecretsConfigured
      /\ ~IsPublicPath(TheRequest.pathname)
      /\ ~CarriesValidToken(TheRequest) )
        => \A c \in CookiesNow :
              LET other == [TheRequest EXCEPT !.cookie = c]
              IN  ~CarriesValidToken(other)
                      => handleRequest(other, Unasked) = result[1]

\* C4: a login submission with the configured username and password is
\* answered 302 to "/" with Set-Cookie session_token=<T>; Path=/; HttpOnly;
\* Secure; SameSite=Strict; Max-Age=86400, T being the token the gate derives
\* for the current day.
C4_LoginIssuesTodaysToken ==
    (Responded /\ IsLoginSubmission(TheRequest) /\ CredentialsMatch(TheRequest))
        => /\ Answered
           /\ IsRedirectTo(TheResponse, "/")
           /\ SetsCookie(TheResponse)
           /\ HasTodaysToken
           /\ TheResponse.headers["Set-Cookie"] =
                  <<"session_token=", TodaysToken.value,
                    "; Path=/; HttpOnly; Secure; SameSite=Strict; Max-Age=86400">>

\* C5: a response has a Set-Cookie header only if it answers a login
\* submission whose username and password equal the configured ones; with
\* both secrets configured, a submission with another username or password
\* is answered 302 to /login?error=invalid without Set-Cookie.
C5_CookieOnlyOnMatchingLogin ==
    /\ (Answered /\ SetsCookie(TheResponse))
           => IsLoginSubmission(TheRequest) /\ CredentialsMatch(TheRequest)
    /\ ( /\ Responded
         /\ IsLoginSubmission(TheRequest)
         /\ TheRequest.form # <<>>
         /\ Configured(AUTH_USERNAME)
         /\ Configured(AUTH_PASSWORD)
         /\ ~CredentialsMatch(TheRequest) )
           => /\ Answered
              /\ IsRedirectTo(TheResponse, "/login?error=invalid")
              /\ ~SetsCookie(TheResponse)

\* a login with the right password and the username in another case is refused
C5_Witness ==
    /\ Responded
    /\ IsLoginSubmission(TheRequest)
    /\ Configured(AUTH_USERNAME)
    /\ AUTH_USERNAME.value = NAME_admin
    /\ Configured(AUTH_PASSWORD)
    /\ TheRequest.form # <<>>
    /\ TheRequest.form[1].username = <<NAME_Admin>>
    /\ TheRequest.form[1].password = <<AUTH_PASSWORD.value>>
    /\ Answered
    /\ IsRedirectTo(TheResponse, "/login?error=invalid")

\* C6: a login submission handled while AUTH_USERNAME or AUTH_PASSWORD is
\* absent is answered 302 to /login?error=config without Set-Cookie, whatever
\* the body.
C6_MissingSecretIsConfigError ==
    ( /\ Responded
      /\ IsLoginSubmission(TheRequest)
      /\ ~Configured(AUTH_USERNAME) \/ ~Configured(AUTH_PASSWORD) )
        => /\ Answered
           /\ IsRedirectTo(TheResponse, "/login?error=config")
           /\ ~SetsCookie(TheResponse)

\* C7: after a successful login, GET / on the same calendar day with the
\* issued cookie is answered 200 with the home page, Content-Type text/html.
C7_LoginThenAccess ==
    ( /\ PresentsStoredCookie
      /\ SameDeployment
      /\ now \div 24 = jar[1].issuedAt \div 24
      /\ TheRequest.method = "GET"
      /\ TheRequest.pathname = PATH_root )
        => Answered /\ IsHomePage(TheResponse)

\* the home page is served to the stored cookie some hours after the login
C7_Witness ==
    /\ PresentsStoredCookie
    /\ SameDeployment
    /\ now \div 24 = jar[1].issuedAt \div 24
    /\ now > jar[1].issuedAt
    /\ TheRequest.method = "GET"
    /\ TheRequest.pathname = PATH_root
    /\ Answered
    /\ IsHomePage(TheResponse)

C9_SessionLasts24Hours ==
    ( /\ PresentsStoredCookie
      /\ SameDeployment
      /\ (now - jar[1].issuedAt) * 3600 < MaxAge )
        => GateAccepts

\* C10: the token depends on the username and on the password: a cookie issued
\* under one pair of secrets is not accepted, on the same day, under another
\* pair of configured secrets that differs in the username or in the password.
C10_TokenDependsOnBothSecrets ==
    ( /\ PresentsStoredCookie
      /\ ~SameDeployment
      /\ Configured(AUTH_USERNAME)
      /\ Configured(AUTH_PASSWORD)
      /\ now \div 24 = jar[1].issuedAt \div 24 )
        => ~GateAccepts

----------------------------------------------------------------------------
(* Vocabulary of the routing and proxy properties *)

\* checkAuthentication returns {authenticated: true} for the request
GateAuthenticates(req) == checkAuthentication(req) = Ok([authenticated |-> TRUE])

\* the path of one of the two proxy endpoints
IsApiPath(pathname) ==
    pathname = PATH_api_properties \/ StartsWith(pathname, PREFIX_api_property)

\* the path of one of the routes
IsRoutedPath(pathname) ==
    \/ pathname \in {PATH_root, PATH_index_html, PATH_app_js, PATH_login, PATH_styles_css}
    \/ IsApiPath(pathname)

\* the (method, path) pairs of the routing table
IsRoute(method, pathname) ==
    \/ method = "GET" /\ IsRoutedPath(pathname)
    \/ method = "POST" /\ pathname = PATH_login

IsNotFound(response) ==
    response.status = 404 /\ response.body = Text("Not Found")

\* C11: while AUTH_USERNAME or AUTH_PASSWORD is unset, the token derivation
\* gives an error or the empty value, checkAuthentication does not return
\* authenticated for the request, and the response sets no cookie.
C11_NothingAuthenticatesWithoutSecrets ==
    ( /\ Responded
      /\ ~Configured(AUTH_USERNAME) \/ ~Configured(AUTH_PASSWORD) )
        => /\ ~Returned(getValidSessionToken) \/ getValidSessionToken.value = <<>>
           /\ ~GateAuthenticates(TheRequest)
           /\ Answered => ~SetsCookie(TheResponse)

\* C12: a request to a path that matches no route is answered 404 with the
\* body "Not Found", whatever its Cookie header.
C12_UnmatchedPathIs404 ==
    (Responded /\ ~IsRoutedPath(TheRequest.pathname))
        => Answered /\ IsNotFound(TheResponse)

\* C13: a request on the path of a route with a method the routing table does
\* not list for that path is answered 404.
C13_OtherMethodIs404 ==
    ( /\ Responded
      /\ IsRoutedPath(TheRequest.pathname)
      /\ ~IsRoute(TheRequest.method, TheRequest.pathname) )
        => Answered /\ IsNotFound(TheResponse)

\* the response is the file: 200, its content, its Content-Type
IsFile(response, content, contentType) ==
    /\ response.status = 200
    /\ response.body = Text(content)
    /\ response.headers["Content-Type"] = contentType

\* C14: GET /login is answered 200 with the login page as text/html and
\* GET /styles.css 200 with the stylesheet as text/css, whatever the Cookie
\* header; the outcome of a login submission does not depend on the Cookie
\* header.
C14_PublicRoutesBypassGate ==
    /\ (Responded /\ TheRequest.method = "GET" /\ TheRequest.pathname = PATH_login)
           => Answered /\ IsFile(TheResponse, "login.html content", "text/html")
    /\ (Responded /\ TheRequest.method = "GET" /\ TheRequest.pathname = PATH_styles_css)
           => Answered /\ IsFile(TheResponse, "styles.css content", "text/css")
    /\ (Responded /\ IsLoginSubmission(TheRequest))
           => \A c \in CookiesNow :
                 handleRequest([TheRequest EXCEPT !.cookie = c], Unasked) = result[1]

\* the login page is served to a request whose Cookie header the gate's
\* parser cannot decode
C14_Witness ==
    /\ Responded
    /\ TheRequest.method = "GET"
    /\ TheRequest.pathname = PATH_login
    /\ TheRequest.cookie = << <<120, 61, 37>> >>
    /\ ~Returned(checkAuthentication(TheRequest))
    /\ Answered
    /\ IsFile(TheResponse, "login.html content", "text/html")

\* the request reached one of the two proxy handlers
AuthenticatedApi ==
    Responded /\ IsApiPath(TheRequest.pathname) /\ GateAuthenticates(TheRequest)

\* the upstream API answered the outbound call with a status outside 200..299
UpstreamFailed ==
    upstream # <<>> /\ ~upstream[1].rejects /\ ~IsOk(upstream[1].status)

\* the outbound call failed at the transport level: fetch() rejected
TransportFailed == upstream # <<>> /\ upstream[1].rejects

\* the response is a JSON error of the kind
IsJsonError(response, kind) ==
    /\ "json" \in DOMAIN response.body
    /\ "error" \in DOMAIN response.body.json
    /\ response.body.json.error = kind
    /\ response.headers["Content-Type"] = "application/json"

\* the error kind specified for an upstream status on the endpoint of the path
ErrorKind(pathname, status) ==
    IF status = 401 THEN "AUTHENTICATION_ERROR"
    ELSE IF status = 403 THEN "AUTHORIZATION_ERROR"
    ELSE IF status = 429 THEN "RATE_LIMIT_ERROR"
    ELSE IF status = 404 /\ pathname # PATH_api_properties THEN "NOT_FOUND_ERROR"
    ELSE "API_ERROR"

\* C15: an authenticated request to either proxy endpoint handled while
\* HOSPITABLE_API_TOKEN is unset is answered 500 with the JSON error
\* API_TOKEN_MISSING, and no outbound call is made.
C15_TokenMissingFailsFast ==
    (AuthenticatedApi /\ ~Configured(HOSPITABLE_API_TOKEN))
        => /\ Answered
           /\ TheResponse.status = 500
           /\ IsJsonError(TheResponse, "API_TOKEN_MISSING")
           /\ Fetched = <<>>

\* C16: on both endpoints an upstream status outside 200..299 is reported
\* with the error kind AUTHENTICATION_ERROR for 401, AUTHORIZATION_ERROR for
\* 403, RATE_LIMIT_ERROR for 429, NOT_FOUND_ERROR for 404 on the details
\* endpoint, API_ERROR otherwise.
\* (Stated for the statuses that a response with a body may have.)
C16_StatusToErrorKind ==
    (AuthenticatedApi /\ UpstreamFailed /\ upstream[1].status \notin NullBodyStatus)
        => /\ Answered
           /\ IsJsonError(TheResponse,
                          ErrorKind(TheRequest.pathname, upstream[1].status))

\* C17: on both endpoints an upstream status s outside 200..299 is answered
\* with HTTP status s and a JSON body whose status field is s.
C17_StatusPassedThrough ==
    (AuthenticatedApi /\ UpstreamFailed)
        => /\ Answered
           /\ TheResponse.status = upstream[1].status
           /\ "json" \in DOMAIN TheResponse.body
           /\ "status" \in DOMAIN TheResponse.body.json
           /\ TheResponse.body.json.status = upstream[1].status

\* C18: on both endpoints a transport failure of the outbound call is
\* answered 500 with the JSON error NETWORK_ERROR whose details field is the
\* message of the failure, and no other outcome is reported as NETWORK_ERROR.
C18_NetworkErrorIffTransportFailure ==
    AuthenticatedApi
        => /\ Answered
           /\ TransportFailed
                  => /\ TheResponse.status = 500
                     /\ IsJsonError(TheResponse, "NETWORK_ERROR")
                     /\ TheResponse.body.json.details = upstream[1].message
           /\ IsJsonError(TheResponse, "NETWORK_ERROR") => TransportFailed

\* the options of the outbound call the claim specifies
IsBearerGet(call) ==
    /\ call.method = "GET"
    /\ call.headers["Authorization"] = <<"Bearer ", HOSPITABLE_API_TOKEN.value>>
    /\ call.headers["Accept"] = "application/json"

\* C19: handling a request makes one outbound call, a GET with the headers
\* Authorization: Bearer <token> and Accept: application/json, when the
\* request is an authenticated API request and the token is configured, and
\* no outbound call otherwise; a call that failed is not repeated.
C19_AtMostOneUpstreamCall ==
    Responded
        => /\ Len(Fetched) <= 1
           /\ (AuthenticatedApi /\ Configured(HOSPITABLE_API_TOKEN))
                  => Len(Fetched) = 1 /\ IsBearerGet(Fetched[1])
           /\ ~(AuthenticatedApi /\ Configured(HOSPITABLE_API_TOKEN))
                  => Fetched = <<>>

\* the outbound call was rejected and the request was answered after that
\* one call
C19_Witness ==
    /\ AuthenticatedApi
    /\ TransportFailed
    /\ Len(Fetched) = 1
    /\ IsBearerGet(Fetched[1])
    /\ Answered
    /\ IsJsonError(TheResponse, "NETWORK_ERROR")

\* C20: handleRequest completes with a response for every request, and a
\* login submission whose form cannot be parsed is answered 302 to
\* /login?error=error.
C20_NoExceptionEscapes ==
    Responded
        => /\ Answered
           /\ (IsLoginSubmission(TheRequest) /\ TheRequest.form = <<>>)
                  => IsRedirectTo(TheResponse, "/login?error=error")

----------------------------------------------------------------------------
(* Vocabulary of the parser and token properties *)

\* the header text parseCookies is given: request.headers.get("Cookie") || ""
HeaderText(req) == IF req.cookie = <<>> THEN <<>> ELSE req.cookie[1]

\* every value of the header (the text after the first "=" of a segment) can
\* be URL-decoded
Decodable(header) ==
    \A i \in 1..Len(Split(header, 59)) :
        LET segment == Split(header, 59)[i]
        IN  HasPair(segment) => Returned(PairOf(segment).value)

\* the mapping of the specified parser after the segments: a segment without
\* "=" or with an empty name is skipped, a later pair replaces an earlier one
RECURSIVE SpecifiedPairs(_, _)
SpecifiedPairs(segments, cookies) ==
    IF segments = <<>> THEN cookies
    ELSE LET segment == Head(segments)
         IN  IF HasPair(segment) /\ PairOf(segment).name # <<>>
             THEN SpecifiedPairs(Tail(segments),
                      (PairOf(segment).name :> PairOf(segment).value.value) @@ cookies)
             ELSE SpecifiedPairs(Tail(segments), cookies)

\* the mapping of the specified parser for a header whose values are decodable
SpecifiedCookies(header) ==
    IF header = <<>> THEN [n \in {} |-> <<>>]
    ELSE SpecifiedPairs(Split(header, 59), [n \in {} |-> <<>>])

\* a letter or a digit
IsAlphanumeric(c) == c \in (48..57) \cup (65..90) \cup (97..122)

\* C21: parseCookies returns the mapping of the specified parser: segments
\* split on ";", trimmed, split at the first "=", value URL-decoded, segments
\* without "=" or with an empty name skipped, the empty mapping for an empty
\* or absent header.
\* (Stated for the headers whose values can all be URL-decoded.)
C21_ParseCookiesAsSpecified ==
    ( /\ Responded
      /\ ~IsPublicPath(TheRequest.pathname)
      /\ Decodable(HeaderText(TheRequest)) )
        => parseCookies(HeaderText(TheRequest))
               = Ok(SpecifiedCookies(HeaderText(TheRequest)))

\* C22: the string getValidSessionToken returns holds only letters and
\* digits, and for fixed secrets and a fixed calendar day every call returns
\* the same string: the call made now returns what the call made at the
\* login returned, when the secrets and the day are those of the login.
C22_TokenDeterministicAlphanumeric ==
    /\ Returned(getValidSessionToken)
           => \A i \in 1..Len(getValidSessionToken.value) :
                  IsAlphanumeric(getValidSessionToken.value[i])
    /\ ( /\ jar # <<>>
         /\ SameDeployment
         /\ DayOf(now) = DayOf(jar[1].issuedAt) )
           => getValidSessionToken = Ok(jar[1].value)

\* later on the day of a login the derivation returns the token the login
\* was given, a string of letters and digits
C22_Witness ==
    /\ jar # <<>>
    /\ SameDeployment
    /\ now > jar[1].issuedAt
    /\ DayOf(now) = DayOf(jar[1].issuedAt)
    /\ Returned(getValidSessionToken)
    /\ getValidSessionToken.value = jar[1].value
    /\ \A i \in 1..Len(jar[1].value) : IsAlphanumeric(jar[1].value[i])

\* the upstream API answered the outbound call 2xx with a JSON payload
UpstreamJson ==
    /\ upstream # <<>>
    /\ ~upstream[1].rejects
    /\ IsOk(upstream[1].status)
    /\ "json" \in DOMAIN upstream[1].body

----------------------------------------------------------------------------
(* The worker with several requests in flight.  The runtime runs one       *)
(* handler at a time and switches between handlers where one awaits an     *)
(* operation of the runtime: request.formData() in handleLogin, fetch()    *)
(* and response.json() in the two proxy handlers.  The secrets are globals *)
(* of the running worker and do not change while it handles requests.      *)

MaxInFlight == 2       \* requests handled at the same time

Slots == 1..MaxInFlight

Empty == [stage |-> "empty"]

\* the requests of the concurrent worker
ConcurrentRequests ==
    { Request("GET", p, NoQuery, c, <<>>) :
          p \in { PATH_root, PATH_api_properties, PREFIX_api_property \o <<52, 50>> },
          c \in { <<>> } \cup { <<SessionSegment(t)>> : t \in PresentedTokens } }
    \cup { Request("GET", PATH_root, NoQuery, << <<120, 61, 37>> >>, <<>>) }
    \cup { Request("POST", PATH_login, NoQuery, <<>>, f) :
               f \in { <<>>, <<[username |-> <<NAME_admin>>, password |-> <<PASS_pw>>]>> } }

\* the replies of the upstream API to the concurrent worker
ConcurrentReplies ==
    { r \in Replies :
          \/ r.rejects
          \/ /\ r.status \in {200, 403, 404}
             /\ "json" \in DOMAIN r.body
             /\ r.body.canonical }

\* the handler resumed with the reply, using another handler's name when
\* another request is awaiting its fetch: a name kept in a shared variable
resumeShared(handler, req, reply) ==
    LET shared == IF \E o \in Slots : /\ inflight[o].stage = "fetch"
                                      /\ inflight[o].handler # handler
                  THEN IF handler = "handlePropertiesAPI"
                       THEN "handlePropertyDetailsAPI" ELSE "handlePropertiesAPI"
                  ELSE handler
    IN  IF shared = "handlePropertiesAPI"
        THEN Ok(handlePropertiesAPI(req, reply).response)
        ELSE Ok(handlePropertyDetailsAPI(req, reply).response)

\* the proxy handler that awaited fetch() is resumed with the reply
resume(handler, req, reply) ==
    IF handler = "handlePropertiesAPI"
    THEN Ok(handlePropertiesAPI(req, reply).response)
    ELSE Ok(handlePropertyDetailsAPI(req, reply).response)

ConcurrentInit ==
    /\ AUTH_USERNAME = Declared(NAME_admin)
    /\ AUTH_PASSWORD = Declared(PASS_pw)
    /\ HOSPITABLE_API_TOKEN = Declared(TOKEN_tok)
    /\ now = StartDay * 24
    /\ phase = "idle"
    /\ request = <<>>
    /\ upstream = <<>>
    /\ result = <<>>
    /\ jar = <<>>
    /\ inflight = [slot \in Slots |-> Empty]
    /\ PageNotLoaded

\* a fetch event: handleRequest runs until it returns or awaits
Arrive(slot) ==
    /\ inflight[slot] = Empty
    /\ \E req \in ConcurrentRequests :
          \E started \in {handleRequest(req, Unasked)} :
              inflight' = [inflight EXCEPT ![slot] =
                  IF IsLoginSubmission(req)
                  THEN [stage |-> "formData", request |-> req]
                  ELSE IF started.fetched = <<>>
                  THEN [stage |-> "settled", request |-> req, reply |-> Unasked,
                        completion |-> started.completion, day |-> DayOf(now)]
                  ELSE [stage |-> "fetch", request |-> req,
                        handler |-> IF req.pathname = PATH_api_properties
                                    THEN "handlePropertiesAPI"
                                    ELSE "handlePropertyDetailsAPI",
                        call |-> started.fetched[1], day |-> DayOf(now)]]
    /\ UNCHANGED <<workerVars, clientVars>>

\* request.formData() settles and handleLogin runs to its end
FormDataSettles(slot) ==
    /\ inflight[slot].stage = "formData"
    /\ inflight' = [inflight EXCEPT ![slot] =
           [stage |-> "settled", request |-> inflight[slot].request,
            reply |-> Unasked,
            completion |-> handleLogin(inflight[slot].request),
            day |-> DayOf(now)]]
    /\ UNCHANGED <<workerVars, clientVars>>

\* fetch() settles and the proxy handler runs to its end
FetchSettles(slot) ==
    /\ inflight[slot].stage = "fetch"
    /\ \E reply \in ConcurrentReplies :
          inflight' = [inflight EXCEPT ![slot] =
              [stage |-> "settled", request |-> inflight[slot].request,
               reply |-> reply,
               completion |-> resume(inflight[slot].handler,
                                     inflight[slot].request, reply),
               day |-> inflight[slot].day]]
    /\ UNCHANGED <<workerVars, clientVars>>

\* event.respondWith: the response leaves the worker
Respond(slot) ==
    /\ inflight[slot].stage = "settled"
    /\ inflight' = [inflight EXCEPT ![slot] = Empty]
    /\ UNCHANGED <<workerVars, clientVars>>

\* the host clock advances, whatever is in flight
ConcurrentTick ==
    /\ now + StepHours <= StartDay * 24 + MaxHours
    /\ now' = now + StepHours
    /\ UNCHANGED <<AUTH_USERNAME, AUTH_PASSWORD, HOSPITABLE_API_TOKEN, phase,
                   request, upstream, result, jar, concurrentVars, clientVars>>

ConcurrentNext ==
    \/ \E slot \in Slots :
          Arrive(slot) \/ FormDataSettles(slot) \/ FetchSettles(slot) \/ Respond(slot)
    \/ ConcurrentTick

ConcurrentSpec == ConcurrentInit /\ [][ConcurrentNext]_vars

\* C23: request handling is stateless.  A request handled while others are
\* in flight gets the response handleRequest gives to it alone, with the same
\* secrets, calendar day and upstream reply; and a step of one request
\* changes neither the secrets nor what the worker holds of another request.
C23_Stateless ==
    /\ [](\A slot \in Slots :
             (inflight[slot].stage = "settled" /\ inflight[slot].day = DayOf(now))
                 => inflight[slot].completion
                        = handleRequest(inflight[slot].request,
                                        inflight[slot].reply).completion)
    /\ [][ /\ AUTH_USERNAME' = AUTH_USERNAME
           /\ AUTH_PASSWORD' = AUTH_PASSWORD
           /\ HOSPITABLE_API_TOKEN' = HOSPITABLE_API_TOKEN
           /\ \A slot \in Slots :
                 inflight'[slot] # inflight[slot]
                     => /\ now' = now
                        /\ \A o \in Slots \ {slot} : inflight'[o] = inflight[o]
         ]_vars

\* two API requests were in flight at once: the list request was answered
\* from its own upstream reply while the details request awaited its fetch
C23_Witness ==
    /\ inflight[1].stage = "settled"
    /\ inflight[1].reply # Unasked
    /\ ~inflight[1].reply.rejects
    /\ inflight[1].reply.status = 403
    /\ inflight[1].request.pathname = PATH_api_properties
    /\ inflight[1].completion.value.body.json.error = "AUTHORIZATION_ERROR"
    /\ inflight[2].stage = "fetch"
    /\ inflight[2].handler = "handlePropertyDetailsAPI"

----------------------------------------------------------------------------
(* The client script, src/app.js: loading the listing.  The browser runs   *)
(* one function at a time and switches where a function awaits the         *)
(* network; a promise that is already settled is awaited without any other *)
(* event running in between.                                               *)

MaxLastPage == 2       \* the upstream listing has at most this many pages
PageLength == 2        \* records on each page of the upstream listing
MaxPage == 4           \* currentPage does not go beyond this page

\* the worker while the client is observed: deployed, idle
WorkerDeployed ==
    /\ AUTH_USERNAME = Declared(NAME_admin)
    /\ AUTH_PASSWORD = Declared(PASS_pw)
    /\ HOSPITABLE_API_TOKEN = Declared(TOKEN_tok)
    /\ now = StartDay * 24
    /\ phase = "idle"
    /\ request = <<>>
    /\ upstream = <<>>
    /\ result = <<>>
    /\ jar = <<>>
    /\ NothingInFlight

\* the records of page p of the upstream listing: none beyond the last page
Listing(p) ==
    IF p > lastPage THEN <<>>
    ELSE [k \in 1..PageLength |-> [id |-> (p - 1) * PageLength + k]]

\* the JSON of a successful reply to /api/properties?page=p
ListReply(p) ==
    [data |-> Listing(p),
     meta |-> [total |-> lastPage * PageLength, current_page |-> p,
               last_page |-> lastPage]]

\* how a request of the listing settles: the page; a 2xx JSON with an
\* error field; a JSON with an error status; fetch() rejecting; a body that
\* is not JSON, such as the login page after a redirect
Outcomes == {"page", "error_field", "error_status", "network_failure", "not_json"}

\* the fetch calls that have not settled
Pending == { k \in DOMAIN fetchLog : fetchLog[k].outcome = "pending" }

\* fetch(`/api/properties?page=${currentPage}&per_page=100`), not yet settled
ListFetch(page, caller) ==
    [url |-> <<"/api/properties?page=", page, "&per_page=100">>,
     page |-> page, caller |-> caller, outcome |-> "pending"]

\* the fetch log once call k has settled
Settled(k, outcome) == [fetchLog EXCEPT ![k].outcome = outcome]

\* showCompletionMessage: the text it shows
CompletionMessage(total) == <<"All ", total, " properties loaded successfully!">>

LoadInit ==
    /\ WorkerDeployed
    /\ Declarations
    /\ searchBox = <<>>
    /\ progressText = <<"Loading properties...">>
    /\ task = "declared"
    /\ fetchLog = <<>>
    /\ lastPage \in 1..MaxLastPage
    /\ loopIndex = 0
    /\ loaded = 0
    /\ NothingCopied
    /\ NothingTyped

\* the DOMContentLoaded handler: loadInitialProperties runs through
\* loadAllProperties into loadProperties, up to its await of fetch()
DOMContentLoaded ==
    /\ task = "declared"
    /\ currentPage' = 1
    /\ allProperties' = <<>>
    /\ IF isLoading
       THEN /\ task' = "loadAllProperties"
            /\ progressText' = <<"Loading all properties...">>
            /\ UNCHANGED <<isLoading, fetchLog>>
       ELSE /\ isLoading' = TRUE
            /\ fetchLog' = Append(fetchLog, ListFetch(1, "loadAllProperties"))
            /\ progressText' = <<"Loading all properties...">>
            /\ task' = "loadProperties"
    /\ UNCHANGED <<filteredProperties, selectedProperties, hasMorePages,
                   totalProperties, loadedProperties, searchBox, lastPage>>
    /\ UNCHANGED <<workerVars, concurrentVars, detailsVars, selectVars,
                   debounceVars>>

\* loadAllProperties after `await loadProperties()`, and loadInitialProperties
\* after it when the loop ends; the arguments are the values loadProperties
\* left: allProperties, totalProperties, loadedProperties, hasMorePages,
\* isLoading, progressText and the fetch log
AfterLoadProperties(all, total, count, more, loading, progress, log) ==
    /\ allProperties' = all
    /\ totalProperties' = total
    /\ loadedProperties' = count
    /\ hasMorePages' = more
    /\ IF more
       THEN /\ currentPage < MaxPage
            /\ currentPage' = currentPage + 1
            /\ progressText' = <<"Loading properties... ", count, "/",
                                 IF total = 0 THEN "?" ELSE total>>
            /\ isLoading' = TRUE
            /\ fetchLog' = IF loading THEN log
                           ELSE Append(log, ListFetch(currentPage + 1, "loadAllProperties"))
            /\ task' = IF loading THEN "loadAllProperties" ELSE "loadProperties"
            /\ UNCHANGED filteredProperties
       ELSE /\ filteredProperties' = all
            /\ progressText' = IF Len(all) > 0 THEN CompletionMessage(total)
                               ELSE progress
            /\ isLoading' = loading
            /\ fetchLog' = log
            /\ task' = "rendered"
            /\ UNCHANGED currentPage

\* a fetch of loadProperties settles, response.json() included: the rest of
\* loadProperties runs, then its caller
LoadPropertiesSettles ==
    \E k \in Pending, outcome \in Outcomes :
        LET data     == ListReply(fetchLog[k].page)
            page     == outcome = "page"
            all      == IF page THEN allProperties \o data.data ELSE allProperties
            total    == IF page THEN data.meta.total ELSE totalProperties
            count   == IF page THEN loadedProperties + Len(data.data)
                        ELSE loadedProperties
            more     == IF page THEN data.meta.current_page < data.meta.last_page
                        ELSE hasMorePages
            \* `return` in the try block leaves before isLoading = false
            loading  == outcome = "error_field"
            progress == IF page /\ total > 0
                        THEN <<"Loaded ", count, " of ", total, " properties">>
                        ELSE progressText
        IN  /\ IF fetchLog[k].caller = "loadAllProperties"
               THEN AfterLoadProperties(all, total, count, more, loading, progress,
                                        Settled(k, outcome))
               ELSE /\ allProperties' = all
                    /\ totalProperties' = total
                    /\ loadedProperties' = count
                    /\ hasMorePages' = more
                    /\ isLoading' = loading
                    /\ progressText' = progress
                    /\ fetchLog' = Settled(k, outcome)
                    /\ UNCHANGED <<currentPage, filteredProperties, task>>
            /\ UNCHANGED <<selectedProperties, searchBox, lastPage>>
            /\ UNCHANGED <<workerVars, concurrentVars, detailsVars, selectVars,
                   debounceVars>>

\* a turn of the loop of loadAllProperties whose loadProperties call returned
\* at once because isLoading was true
LoadAllPropertiesTurn ==
    /\ task = "loadAllProperties"
    /\ AfterLoadProperties(allProperties, totalProperties, loadedProperties,
                           hasMorePages, isLoading, progressText, fetchLog)
    /\ UNCHANGED <<selectedProperties, searchBox, lastPage>>
    /\ UNCHANGED <<workerVars, concurrentVars, detailsVars, selectVars,
                   debounceVars>>

\* loadMoreProperties(), the onclick handler of loadMoreBtn
loadMoreProperties ==
    /\ task # "declared"
    /\ IF ~hasMorePages \/ isLoading
       THEN UNCHANGED <<currentPage, isLoading, progressText, fetchLog>>
       ELSE /\ currentPage < MaxPage
            /\ currentPage' = currentPage + 1
            /\ isLoading' = TRUE
            /\ progressText' = <<"Loading more properties... (", loadedProperties,
                                 "/", totalProperties, ")">>
            /\ fetchLog' = Append(fetchLog,
                                  ListFetch(currentPage + 1, "loadMoreProperties"))
    /\ UNCHANGED <<allProperties, filteredProperties, selectedProperties,
                   hasMorePages, totalProperties, loadedProperties, searchBox,
                   task, lastPage>>
    /\ UNCHANGED <<workerVars, concurrentVars, detailsVars, selectVars,
                   debounceVars>>

LoadNext ==
    DOMContentLoaded \/ LoadPropertiesSettles \/ LoadAllPropertiesTurn
        \/ loadMoreProperties

LoadSpec == LoadInit /\ [][LoadNext]_vars

\* a request of the listing that settled without giving its page
Failed(k) == fetchLog[k].outcome \notin {"pending", "page"}

\* the records of the pages 1..n of the upstream listing, in page order
RECURSIVE PagesUpTo(_)
PagesUpTo(n) == IF n = 0 THEN <<>> ELSE PagesUpTo(n - 1) \o Listing(n)

\* C25: the loop of loadAllProperties ends: once a request of a page has
\* failed, no further page is requested and loadInitialProperties goes on
\* to render.
C25_LoadingStopsAfterFailure ==
    \A k \in DOMAIN fetchLog :
        Failed(k) => k = Len(fetchLog) /\ task = "rendered"

\* C26: when the completion message is shown, allProperties holds the
\* records of the pages 1 to last_page, each page once and in page order.
C26_CompleteWhenMessageShown ==
    progressText = CompletionMessage(totalProperties)
        => allProperties = PagesUpTo(lastPage)

\* C27: isLoading is true exactly while a fetch of loadProperties has not
\* settled, and at most one such fetch is in flight.
C27_IsLoadingIffFetching ==
    /\ isLoading <=> Pending # {}
    /\ Cardinality(Pending) <= 1

\* ------------------------------------------------------------------------
\* loadAllPropertyDetails of src/unnamed/part_001, the earlier app.js: after
\* the listing is loaded, the details of every property are requested in
\* batches.

\* the longest listing the details are loaded for
MaxProperties == 6

\* const batchSize = 5
BatchSize == 5

\* how a request of /api/property/{id} settles: the details; a 2xx JSON with
\* an error field; a JSON with an error status; fetch() rejecting; a body
\* that is not JSON
DetailOutcomes ==
    {"details", "error_field", "error_status", "network_failure", "not_json"}

\* data.data of a successful reply to /api/property/{id}
Details(id) == [id |-> id, amenities |-> "full"]

\* {...a, ...b}
Spread(a, b) ==
    [f \in DOMAIN a \cup DOMAIN b |-> IF f \in DOMAIN b THEN b[f] ELSE a[f]]

\* allProperties.findIndex((p) => p.id === id), counted from 1; 0 for -1
FindIndex(all, id) ==
    IF \E j \in DOMAIN all : all[j].id = id
    THEN CHOOSE j \in DOMAIN all :
             /\ all[j].id = id
             /\ \A h \in DOMAIN all : all[h].id = id => j <= h
    ELSE 0

\* a loop that hands all the remaining properties to one Promise.all
BatchUnbounded(all, start) ==
    [m \in 1..(Len(all) - start) |-> all[start + m]]

\* allProperties.slice(i, i + batchSize)
Batch(all, start) ==
    [m \in 1..(IF Len(all) - start < BatchSize THEN Len(all) - start
               ELSE BatchSize) |-> all[start + m]]

\* fetch(`/api/property/${property.id}`), not yet settled
DetailsFetch(property) ==
    [url |-> <<"/api/property/", property.id>>, id |-> property.id,
     outcome |-> "pending"]

\* batch.map(async (property) => ...): every callback runs up to its await
\* of fetch()
BatchFetches(all, start) ==
    [m \in DOMAIN Batch(all, start) |-> DetailsFetch(Batch(all, start)[m])]

\* loadAllProperties has returned with a listing of distinct ids
DetailsInit ==
    /\ WorkerDeployed
    /\ \E n \in 0..MaxProperties : allProperties = [k \in 1..n |-> [id |-> k]]
    /\ filteredProperties = <<>>
    /\ selectedProperties = {}
    /\ currentPage = 1
    /\ isLoading = FALSE
    /\ hasMorePages = FALSE
    /\ totalProperties = Len(allProperties)
    /\ loadedProperties = Len(allProperties)
    /\ searchBox = <<>>
    /\ progressText = <<"Loading all properties...">>
    /\ task = "loadAllProperties returned"
    /\ fetchLog = <<>>
    /\ lastPage = 1
    /\ loopIndex = 0
    /\ loaded = 0
    /\ NothingCopied
    /\ NothingTyped

\* loadInitialProperties after loadAllPropertyDetails has returned:
\* filteredProperties = allProperties, renderProperties, hideLoading and the
\* completion message
RenderAfterDetails(all, progress) ==
    /\ filteredProperties' = all
    /\ progressText' = IF Len(all) > 0 THEN CompletionMessage(totalProperties)
                       ELSE progress
    /\ task' = "rendered"

\* the call of loadAllPropertyDetails, up to the await of the first batch
loadAllPropertyDetails ==
    /\ task = "loadAllProperties returned"
    /\ loaded' = 0
    /\ loopIndex' = 0
    /\ LET progress == <<"Loading full details for all properties... 0/",
                         Len(allProperties)>>
       IN  IF 0 < Len(allProperties)
           THEN /\ fetchLog' = BatchFetches(allProperties, 0)
                /\ progressText' = progress
                /\ task' = "loadAllPropertyDetails"
                /\ UNCHANGED filteredProperties
           ELSE /\ RenderAfterDetails(allProperties, progress)
                /\ UNCHANGED fetchLog
    /\ UNCHANGED <<allProperties, selectedProperties, currentPage, isLoading,
                   hasMorePages, totalProperties, loadedProperties, searchBox,
                   lastPage>>
    /\ UNCHANGED <<workerVars, concurrentVars, selectVars, debounceVars>>

\* a request of the batch settles and its callback runs to its end; with the
\* last of the batch Promise.all resolves and the loop goes on to the next
\* batch, or the function returns
DetailSettles ==
    /\ task = "loadAllPropertyDetails"
    /\ \E k \in Pending, outcome \in DetailOutcomes :
        LET log == Settled(k, outcome)
            id == fetchLog[k].id
            index == FindIndex(allProperties, id)
            all == IF outcome = "details" /\ index # 0
                   THEN [allProperties EXCEPT ![index] =
                            Spread(Spread(@, Details(id)),
                                   [detailsLoaded |-> TRUE])]
                   ELSE allProperties
            progress == <<"Loading full details... ", loaded + 1, "/",
                          Len(allProperties)>>
            batchSettled == \A j \in DOMAIN log : log[j].outcome # "pending"
            next == loopIndex + BatchSize
        IN  /\ allProperties' = all
            /\ loaded' = loaded + 1
            /\ IF ~batchSettled
               THEN /\ fetchLog' = log
                    /\ progressText' = progress
                    /\ UNCHANGED <<loopIndex, task, filteredProperties>>
               ELSE IF next < Len(all)
               THEN /\ loopIndex' = next
                    /\ fetchLog' = log \o BatchFetches(all, next)
                    /\ progressText' = progress
                    /\ UNCHANGED <<task, filteredProperties>>
               ELSE /\ loopIndex' = next
                    /\ fetchLog' = log
                    /\ RenderAfterDetails(all, progress)
    /\ UNCHANGED <<selectedProperties, currentPage, isLoading, hasMorePages,
                   totalProperties, loadedProperties, searchBox, lastPage>>
    /\ UNCHANGED <<workerVars, concurrentVars, selectVars, debounceVars>>

DetailsNext == loadAllPropertyDetails \/ DetailSettles

DetailsSpec == DetailsInit /\ [][DetailsNext]_vars

\* the batch the property of request k belongs to, counted from 0
BatchOf(k) == (FindIndex(allProperties, fetchLog[k].id) - 1) \div BatchSize

\* C28: at most 5 detail requests are in flight; a request is in flight only
\* when every request of the earlier batches has settled; no property is
\* requested twice; and when loadAllPropertyDetails has returned every
\* property has been requested, nothing is in flight, and the loaded counter
\* equals the number of properties, whatever the outcomes were.
C28_DetailsInBatchesOfFive ==
    /\ Cardinality(Pending) <= BatchSize
    /\ \A k \in Pending : \A j \in DOMAIN fetchLog :
           BatchOf(j) < BatchOf(k) => j \notin Pending
    /\ \A j, k \in DOMAIN fetchLog : fetchLog[j].id = fetchLog[k].id => j = k
    /\ task = "rendered" =>
           /\ Pending = {}
           /\ { fetchLog[k].id : k \in DOMAIN fetchLog }
                  = { allProperties[j].id : j \in DOMAIN allProperties }
           /\ loaded = Len(allProperties)

\* a listing of two batches has been gone through, with a request that gave
\* the details and a request that failed
C28_Witness ==
    /\ task = "rendered"
    /\ Len(allProperties) > BatchSize
    /\ Len(fetchLog) = Len(allProperties)
    /\ \E k \in DOMAIN fetchLog : fetchLog[k].outcome = "details"
    /\ \E k \in DOMAIN fetchLog : fetchLog[k].outcome = "network_failure"
    /\ loaded = Len(allProperties)

\* ------------------------------------------------------------------------
\* The client script, src/app.js: searching, selecting and exporting, once
\* the listing is loaded and rendered.

ID_p1 == <<112, 49>>                              \* "p1"
ID_p2 == <<112, 50>>                              \* "p2"
ID_p3 == <<112, 51>>                              \* "p3"

\* a listing: name, public_name and address may be null, and so may the
\* display of an address
Catalogue ==
    << [id |-> ID_p1, name |-> <<(<<65, 98>>)>>, public_name |-> <<>>,
        address |-> <<[display |-> <<(<<120>>)>>]>>],           \* "Ab", "x"
       [id |-> ID_p2, name |-> <<(<<99>>)>>, public_name |-> <<(<<65>>)>>,
        address |-> <<>>],                                      \* "c", "A"
       [id |-> ID_p3, name |-> <<>>, public_name |-> <<>>,
        address |-> <<[display |-> <<(<<67, 98>>)>>]>>] >>      \* "Cb"

\* what the user may have typed into the search box:
\* "", " ", "a", "B ", "c", "x", "z"
Typed == {<<>>, <<32>>, <<97>>, <<66, 32>>, <<99>>, <<120>>, <<122>>}

\* the elements of a list
Range(list) == { list[j] : j \in DOMAIN list }

\* String.prototype.toLowerCase, of ASCII text
toLowerCase(s) ==
    [j \in DOMAIN s |-> IF s[j] >= 65 /\ s[j] <= 90 THEN s[j] + 32 ELSE s[j]]

\* String.prototype.includes
includes(s, query) ==
    \E j \in 0..(Len(s) - Len(query)) : SubSeq(s, j + 1, j + Len(query)) = query

\* text?.toLowerCase().includes(query) || false, of a text that may be null
MatchOf(text, query) == text # <<>> /\ includes(toLowerCase(text[1]), query)

\* the callback of allProperties.filter in handleSearch
Matches(property, query) ==
    \/ MatchOf(property.name, query)
    \/ MatchOf(property.public_name, query)
    \/ property.address # <<>> /\ MatchOf(property.address[1].display, query)

\* the list renderProperties, updateSelectionUI and selectAllVisible go by
visibleProperties ==
    IF Len(filteredProperties) > 0 \/ Trim(searchBox) # <<>>
    THEN filteredProperties
    ELSE allProperties

\* an export that takes the records from the search results
selectedVisible ==
    SelectSeq(filteredProperties,
              LAMBDA property : property.id \in selectedProperties)

\* allProperties.filter((property) => selectedProperties.has(property.id))
selectedData ==
    SelectSeq(allProperties,
              LAMBDA property : property.id \in selectedProperties)

\* loadInitialProperties has rendered a listing
SelectInit ==
    /\ WorkerDeployed
    /\ \E n \in 0..Len(Catalogue) : allProperties = SubSeq(Catalogue, 1, n)
    /\ filteredProperties = allProperties
    /\ selectedProperties = {}
    /\ currentPage = 1
    /\ isLoading = FALSE
    /\ hasMorePages = FALSE
    /\ totalProperties = Len(allProperties)
    /\ loadedProperties = Len(allProperties)
    /\ searchBox = <<>>
    /\ progressText = CompletionMessage(totalProperties)
    /\ task = "rendered"
    /\ fetchLog = <<>>
    /\ lastPage = 1
    /\ loopIndex = 0
    /\ loaded = 0
    /\ NothingCopied
    /\ NothingTyped

\* what no handler of this part assigns
SelectFrame ==
    UNCHANGED <<allProperties, currentPage, isLoading, hasMorePages,
                totalProperties, loadedProperties, progressText, fetchLog,
                lastPage, workerVars, concurrentVars, detailsVars,
                debounceVars>>

\* the user edits the search box; the debounced handleSearch comes later
Input ==
    /\ \E text \in Typed : searchBox' = text
    /\ task' = "input"
    /\ UNCHANGED <<filteredProperties, selectedProperties, clipboard>>
    /\ SelectFrame

\* what handleSearch assigns to filteredProperties
SearchResults ==
    LET query == Trim(toLowerCase(searchBox))
    IN  IF query = <<>> THEN allProperties
        ELSE SelectSeq(allProperties,
                       LAMBDA property : Matches(property, query))

handleSearch ==
    /\ filteredProperties' = SearchResults
    /\ task' = "handleSearch"
    /\ UNCHANGED <<searchBox, selectedProperties, clipboard>>
    /\ SelectFrame

\* the onchange handler of the checkbox of a card
togglePropertySelection ==
    /\ \E property \in Range(allProperties) :
           LET propertyId == property.id
           IN  selectedProperties' =
                   IF propertyId \in selectedProperties
                   THEN selectedProperties \ {propertyId}
                   ELSE selectedProperties \cup {propertyId}
    /\ task' = "togglePropertySelection"
    /\ UNCHANGED <<searchBox, filteredProperties, clipboard>>
    /\ SelectFrame

selectAllVisible ==
    /\ selectedProperties' =
           selectedProperties \cup { property.id : property \in Range(visibleProperties) }
    /\ task' = "selectAllVisible"
    /\ UNCHANGED <<searchBox, filteredProperties, clipboard>>
    /\ SelectFrame

deselectAll ==
    /\ selectedProperties' = {}
    /\ task' = "deselectAll"
    /\ UNCHANGED <<searchBox, filteredProperties, clipboard>>
    /\ SelectFrame

clearSelection ==
    /\ selectedProperties' = {}
    /\ task' = "clearSelection"
    /\ UNCHANGED <<searchBox, filteredProperties, clipboard>>
    /\ SelectFrame

\* copySelectedProperties: the JSON of selectedData goes to the clipboard
\* or, when writeText rejects, into a new window
copySelectedProperties ==
    /\ IF selectedProperties = {}
       THEN UNCHANGED clipboard
       ELSE \E to \in {"clipboard", "window"} :
                clipboard' = <<[to |-> to, data |-> selectedData]>>
    /\ task' = "copySelectedProperties"
    /\ UNCHANGED <<searchBox, filteredProperties, selectedProperties>>
    /\ SelectFrame

SelectNext ==
    \/ Input
    \/ handleSearch
    \/ togglePropertySelection
    \/ selectAllVisible
    \/ deselectAll
    \/ clearSelection
    \/ copySelectedProperties

SelectSpec == SelectInit /\ [][SelectNext]_vars

\* the records of a list whose id is in a set, in the order of the list
RECURSIVE RecordsWithId(_, _)
RecordsWithId(list, ids) ==
    IF list = <<>> THEN <<>>
    ELSE (IF Head(list).id \in ids THEN <<Head(list)>> ELSE <<>>)
             \o RecordsWithId(Tail(list), ids)

\* C29: copySelectedProperties exports the records of allProperties whose id
\* is in selectedProperties, in the order of allProperties and whatever the
\* search results are; it exports nothing when nothing is selected; and
\* handleSearch leaves the selection as it was.
C29_ExportIsTheSelection ==
    [][ /\ task' = "copySelectedProperties" =>
               IF selectedProperties = {}
               THEN clipboard' = clipboard
               ELSE /\ clipboard' # <<>>
                    /\ clipboard'[1].data
                           = RecordsWithId(allProperties, selectedProperties)
        /\ task' = "handleSearch" => selectedProperties' = selectedProperties
      ]_vars

\* an export made while the search results leave out a selected record
C29_Witness ==
    /\ task = "copySelectedProperties"
    /\ selectedProperties # {}
    /\ clipboard # <<>>
    /\ clipboard[1].data = RecordsWithId(allProperties, selectedProperties)
    /\ Len(clipboard[1].data) >= 2
    /\ Trim(searchBox) # <<>>
    /\ \E j \in DOMAIN clipboard[1].data :
           clipboard[1].data[j] \notin Range(filteredProperties)

\* ------------------------------------------------------------------------
\* The client script, src/app.js: debounce(handleSearch, 300), the listener
\* of the input event of the search box.  Time is counted in milliseconds.
\* A timer runs at the instant it is due, ahead of an input event of the
\* same instant.

\* searchBox.addEventListener("input", debounce(handleSearch, 300))
Wait == 300

TickMs == 100          \* time passes in steps of at most this many milliseconds
MaxClock == 800        \* the time until which the page is watched
MaxCalls == 3          \* the most input events

\* what an input event leaves in the search box: "a", "z"
Keyed == {<<97>>, <<122>>}

\* the input event the listener is called with
InputEvent(text) == [type |-> "input", value |-> text]

\* the timers that are due
Due == { timer \in timers : timer.due <= clock }

\* a clearTimeout that clears nothing
clearNothing(handle) == timers

\* clearTimeout(handle): the timers left; no timer has the handle undefined
clearTimeout(handle) == { timer \in timers : <<timer.id>> # handle }

\* setTimeout(later, wait): the timer set by the n-th call
Timer(n, args) == [id |-> n, due |-> clock + Wait, args |-> args]

\* the page is rendered and the debounced listener has not been called
DebounceInit ==
    /\ WorkerDeployed
    /\ allProperties = Catalogue
    /\ filteredProperties = allProperties
    /\ selectedProperties = {}
    /\ currentPage = 1
    /\ isLoading = FALSE
    /\ hasMorePages = FALSE
    /\ totalProperties = Len(allProperties)
    /\ loadedProperties = Len(allProperties)
    /\ searchBox = <<>>
    /\ progressText = CompletionMessage(totalProperties)
    /\ task = "rendered"
    /\ fetchLog = <<>>
    /\ lastPage = 1
    /\ loopIndex = 0
    /\ loaded = 0
    /\ NothingCopied
    /\ NothingTyped

\* what neither the listener nor a timer assigns
DebounceFrame ==
    UNCHANGED <<allProperties, selectedProperties, currentPage, isLoading,
                hasMorePages, totalProperties, loadedProperties, progressText,
                fetchLog, lastPage, workerVars, concurrentVars, detailsVars,
                selectVars>>

\* an input event: executedFunction(...args) clears the timer of the
\* closure and sets a new one
executedFunction ==
    /\ Len(calls) < MaxCalls
    /\ Due = {}
    /\ \E text \in Keyed :
           LET args == InputEvent(text)
               n == Len(calls) + 1
           IN  /\ searchBox' = text
               /\ timers' = clearTimeout(timeout) \cup {Timer(n, args)}
               /\ timeout' = <<n>>
               /\ calls' = Append(calls, [at |-> clock, args |-> args])
    /\ task' = "executedFunction"
    /\ UNCHANGED <<filteredProperties, clock, runs>>
    /\ DebounceFrame

\* a timer runs later(): clearTimeout(timeout), then func(...args), which is
\* handleSearch
later ==
    /\ \E timer \in Due :
           /\ timers' = clearTimeout(timeout) \ {timer}
           /\ runs' = Append(runs, [at |-> clock, args |-> timer.args])
    /\ filteredProperties' = SearchResults
    /\ task' = "handleSearch"
    /\ UNCHANGED <<searchBox, timeout, clock, calls>>
    /\ DebounceFrame

\* time passes, up to the instant the next timer is due
TimePasses ==
    /\ clock < MaxClock
    /\ Due = {}
    /\ clock' = IF \E timer \in timers : timer.due < clock + TickMs
                THEN CHOOSE due \in { timer.due : timer \in timers } :
                         \A timer \in timers : due <= timer.due
                ELSE clock + TickMs
    /\ UNCHANGED <<searchBox, filteredProperties, task, timeout, timers, calls,
                   runs>>
    /\ DebounceFrame

DebounceNext == executedFunction \/ later \/ TimePasses

DebounceSpec == DebounceInit /\ [][DebounceNext]_vars

\* call k is the last of its burst: no call follows it within wait
LastOfBurst(k) ==
    k = Len(calls) \/ calls[k + 1].at - calls[k].at >= Wait

\* the runs of func that are wait after call k
RunsAfter(k) == { r \in DOMAIN runs : runs[r].at = calls[k].at + Wait }

====
